---- MODULE Spec2Model ----
(***************************************************************************)
(* Steamer (src/src/main.py): the descriptor codec, the registry store and *)
(* the inject / reconcile / apply workflows.                               *)
(*                                                                         *)
(* A descriptor text is a sequence of items in file order.  An item is one *)
(* occurrence the regular expressions of main.py can see:                  *)
(*   k = "appid"     addappid(<d>)                                         *)
(*   k = "token"     addappid(<d>,1,"<m>")                                 *)
(*   k = "manifest"  setManifestid(<d>,"<m>"<f>)  f = "0": the text ,0     *)
(*                                                f = "other": any other   *)
(*                                                trailing text, or none   *)
(*   k = "note"      text that holds no ")" (a comment, a semicolon)       *)
(* nl tells whether the item is the first of its line.  White space and    *)
(* empty lines are not represented: every pattern skips them with \s*.     *)
(***************************************************************************)
EXTENDS Integers, Sequences, FiniteSets, TLC

\* ------------------------------------------------------------------ bounds
\* Greatest number of items of a descriptor text of the codec specification.
MaxItems == 3

\* Greatest number of source files the Inject runs of a behaviour process.
MaxInjects == 1
\* Greatest number of Check Updates runs of a behaviour.
MaxChecks == 2
\* Greatest number of failures (an I/O or database error, a resolver error or
\* a resolver answer without data) of a behaviour.
MaxFaults == 1
\* Greatest number of source files of a behaviour of the inject specification.
MaxPlacements == 3
\* Greatest number of rows and of clock ticks of the registry specification.
MaxRows == 3
MaxTicks == 2
\* Greatest number of workers and worker processes the window starts, and of
\* depots one worker process queries, in the window specification.
MaxStarts == 4
MaxQueries == 2

\* Depot ids and manifest ids that occur in texts and resolver answers.
Depots == {1, 2}
ManifestIds == {1, 2}
AppIds == {100}
Tokens == {7}

\* ------------------------------------------------------------------- items
AppidItem(a, nl) == [k |-> "appid", d |-> a, m |-> 0, f |-> "", nl |-> nl]
TokenItem(d, t, nl) == [k |-> "token", d |-> d, m |-> t, f |-> "", nl |-> nl]
ManifestItem(d, mid, f, nl) == [k |-> "manifest", d |-> d, m |-> mid, f |-> f, nl |-> nl]
NoteItem(nl) == [k |-> "note", d |-> 0, m |-> 0, f |-> "", nl |-> nl]

\* The value of parsed["appid"] when no addappid(<n>) is found (None).
NoAppid == 0 - 1

\* A file of the file system: its text, or no file.
NoFile == [exists |-> FALSE, text |-> <<>>]
FileOf(text) == [exists |-> TRUE, text |-> text]

\* ------------------------------------------------------------ line layout
\* Whether item i is the first item of its line.
IsLineStart(text, i) == i = 1 \/ text[i].nl

\* Index of the last item of the line that holds item i.
LineEnd(text, i) ==
  LET later == {j \in (i + 1)..Len(text) : text[j].nl}
  IN  IF later = {} THEN Len(text)
      ELSE (CHOOSE j \in later : \A j2 \in later : j <= j2) - 1

\* ---------------------------------------------------------------- parsing
\* dict comprehension over findall: the last occurrence of a key wins.
LastOf(text, kind, d) ==
  LET at == {i \in 1..Len(text) : text[i].k = kind /\ text[i].d = d}
  IN  text[CHOOSE i \in at : \A j \in at : j <= i].m

KeysOf(text, kind) == {text[i].d : i \in {j \in 1..Len(text) : text[j].k = kind}}

parse_all_from_content(text) ==
  LET single == {i \in 1..Len(text) : text[i].k = "appid"}
  IN  [appid |-> IF single = {} THEN NoAppid
                 ELSE text[CHOOSE i \in single : \A j \in single : i <= j].d,
       tokens |-> [d \in KeysOf(text, "token") |-> LastOf(text, "token", d)],
       manifests |-> [d \in KeysOf(text, "manifest") |-> LastOf(text, "manifest", d)]]

\* The trailing form of the occurrence parse reads depot d's manifest id from.
LastFlagOf(text, d) ==
  LET at == {i \in 1..Len(text) : text[i].k = "manifest" /\ text[i].d = d}
  IN  text[CHOOSE i \in at : \A j \in at : j <= i].f

\* ------------------------------------------------------------ serializing
\* A token or manifest id of 0 stands for the empty string, which "if tok:"
\* and "if mid:" take for False.
Truthy(v) == v # 0

\* The lines one of the two loops over all_depots appends: a line for every
\* depot, in ascending order, whose value in `map` is not empty.
RECURSIVE LinesOf(_, _, _)
LinesOf(kind, map, depots) ==
  IF depots = {} THEN <<>>
  ELSE LET d == CHOOSE x \in depots : \A y \in depots : x <= y
           line == IF d \in DOMAIN map /\ Truthy(map[d])
                   THEN IF kind = "token" THEN <<TokenItem(d, map[d], TRUE)>>
                        ELSE <<ManifestItem(d, map[d], "0", TRUE)>>
                   ELSE <<>>
       IN  line \o LinesOf(kind, map, depots \ {d})

\* Mutant of build_lua_content_multi: all_depots is the depots of manifests.
build_lua_content_manifest_depots(appid, tokens, manifests) ==
  <<AppidItem(appid, TRUE)>>
    \o LinesOf("token", tokens, DOMAIN manifests)
    \o LinesOf("manifest", manifests, DOMAIN manifests)

build_lua_content_multi(appid, tokens, manifests) ==
  <<AppidItem(appid, TRUE)>>
    \o LinesOf("token", tokens, DOMAIN tokens \cup DOMAIN manifests)
    \o LinesOf("manifest", manifests, DOMAIN tokens \cup DOMAIN manifests)

\* ------------------------------------------------------- in-place update
\* pattern: (?im)^(\s*setManifestid\(\s*D\s*,\s*")(\d+)(".*\)\s*)$
\* A match starts at a line whose first item is depot D's manifest marker
\* and runs, .* being greedy, to the last ")" of the line, which must be
\* followed by white space only: the line's last item is no note.
Pattern1Starts(text, depot) ==
  {i \in 1..Len(text) :
     /\ IsLineStart(text, i)
     /\ text[i].k = "manifest"
     /\ text[i].d = depot
     /\ text[LineEnd(text, i)].k # "note"}

\* repl: group 1, the new manifest id, then ",0) in place of the whole match.
Repl(text, i, depot, new_manifest) == ManifestItem(depot, new_manifest, "0", text[i].nl)

RECURSIVE Subn1(_, _, _, _)
Subn1(text, depot, new_manifest, i) ==
  IF i > Len(text) THEN <<>>
  ELSE IF i \in Pattern1Starts(text, depot)
       THEN <<Repl(text, i, depot, new_manifest)>>
              \o Subn1(text, depot, new_manifest, LineEnd(text, i) + 1)
       ELSE <<text[i]>> \o Subn1(text, depot, new_manifest, i + 1)

\* Mutant of Pattern2Starts: the depot is not part of the pattern, any
\* manifest marker matches.
Pattern2StartsAnyDepot(text, depot) ==
  {i \in 1..Len(text) : text[i].k = "manifest"}

\* pattern2: (setManifestid\(\s*D\s*,\s*")(\d+)(".*\)), count=1: the first
\* occurrence anywhere, through the last ")" of its line.
Pattern2Starts(text, depot) ==
  {i \in 1..Len(text) : text[i].k = "manifest" /\ text[i].d = depot}

LastParen(text, i) ==
  LET c == {j \in i..LineEnd(text, i) : text[j].k # "note"}
  IN  CHOOSE j \in c : \A j2 \in c : j2 <= j

Subn2(text, depot, new_manifest) ==
  LET s == Pattern2Starts(text, depot)
      i == CHOOSE x \in s : \A y \in s : x <= y
  IN  SubSeq(text, 1, i - 1) \o <<Repl(text, i, depot, new_manifest)>>
        \o SubSeq(text, LastParen(text, i) + 1, Len(text))

\* check: re.search of setManifestid(D,"<new>",0) in the new text.
CheckWritten(text, depot, new_manifest) ==
  \E i \in 1..Len(text) :
     text[i].k = "manifest" /\ text[i].d = depot
       /\ text[i].m = new_manifest /\ text[i].f = "0"

\* update_lua_manifest(file_path, depot, new_manifest): the returned bool and
\* the file afterwards.  writable = FALSE: write_text raises.
update_lua_manifest(file, depot, new_manifest, writable) ==
  IF ~file.exists THEN [ok |-> FALSE, file |-> file]
  ELSE LET new_text ==
             IF Pattern1Starts(file.text, depot) # {}
             THEN Subn1(file.text, depot, new_manifest, 1)
             ELSE IF Pattern2Starts(file.text, depot) # {}
                  THEN Subn2(file.text, depot, new_manifest)
                  ELSE file.text
           n == Cardinality(Pattern1Starts(file.text, depot))
                  + Cardinality(Pattern2Starts(file.text, depot))
       IN  IF n = 0 THEN [ok |-> FALSE, file |-> file]
           ELSE IF ~writable THEN [ok |-> FALSE, file |-> file]
           ELSE [ok |-> CheckWritten(new_text, depot, new_manifest),
                 file |-> FileOf(new_text)]

\* --------------------------------------------------------- registry store
\* The one destination directory, <steam root>/config/stplug-in.
DestDir == "stplug-in"

\* The registry (table gamesAdded) is the sequence of its rows in id order.
Row(filename, appid, depot, manifest_id, dest_path, moved_at, multi) ==
  [filename |-> filename, appid |-> appid, depot |-> depot,
   manifest_id |-> manifest_id, dest_path |-> dest_path,
   moved_at |-> moved_at, multi |-> multi]

\* Mutant of record_in_db: INSERT OR REPLACE on the key (filename, depot).
record_in_db_replace(conn, filename, appid, depot, manifest_id, dest_path, multi, clock) ==
  Append(SelectSeq(conn, LAMBDA r : ~(r.filename = filename /\ r.depot = depot)),
         Row(filename, appid, depot, manifest_id, dest_path, clock, multi))

\* INSERT: id autoincrement, moved_at DEFAULT CURRENT_TIMESTAMP.
record_in_db(conn, filename, appid, depot, manifest_id, dest_path, multi, clock) ==
  Append(conn, Row(filename, appid, depot, manifest_id, dest_path, clock, multi))

\* UPDATE ... SET manifest_id = ? WHERE filename = ? AND depot = ?
RowMatches(row, filename, depot) == row.filename = filename /\ row.depot = depot

UpdatedRows(conn, filename, depot, new_manifest) ==
  [i \in 1..Len(conn) |->
     IF RowMatches(conn[i], filename, depot)
     THEN [conn[i] EXCEPT !.manifest_id = new_manifest]
     ELSE conn[i]]

update_db_manifest(conn, filename, depot, new_manifest) ==
  [conn |-> UpdatedRows(conn, filename, depot, new_manifest),
   rowcount |-> Cardinality({i \in 1..Len(conn) : RowMatches(conn[i], filename, depot)})]

\* load_latest_rows: rows ORDER BY moved_at ASC folded into a dict keyed by
\* (filename, depot), a later row replacing an earlier one; rows of equal
\* moved_at are taken in id order.  The dict, as a function of its keys.
RowKeys(conn) == {<<conn[i].filename, conn[i].depot>> : i \in 1..Len(conn)}

\* Mutant of LatestIndex: of the rows of a key with the latest moved_at the
\* one inserted first stays in the dict (ORDER BY moved_at ASC, id DESC).
LatestIndexTieFirst(conn, key) ==
  LET at == {i \in 1..Len(conn) : RowMatches(conn[i], key[1], key[2])}
  IN  CHOOSE i \in at :
        \A j \in at :
          \/ conn[j].moved_at < conn[i].moved_at
          \/ (conn[j].moved_at = conn[i].moved_at /\ i <= j)

\* Mutant of LatestIndex: ORDER BY moved_at DESC, the oldest row of a key is
\* the one that stays in the dict.
LatestIndexOldest(conn, key) ==
  LET at == {i \in 1..Len(conn) : RowMatches(conn[i], key[1], key[2])}
  IN  CHOOSE i \in at :
        \A j \in at :
          \/ conn[i].moved_at < conn[j].moved_at
          \/ (conn[j].moved_at = conn[i].moved_at /\ i <= j)

LatestIndex(conn, key) ==
  LET at == {i \in 1..Len(conn) : RowMatches(conn[i], key[1], key[2])}
  IN  CHOOSE i \in at :
        \A j \in at :
          \/ conn[j].moved_at < conn[i].moved_at
          \/ (conn[j].moved_at = conn[i].moved_at /\ j <= i)

load_latest_rows(conn) == [key \in RowKeys(conn) |-> conn[LatestIndex(conn, key)]]

\* load_known_files: SELECT DISTINCT filename, dest_path ... ORDER BY moved_at
\* DESC.  moved_at is no column of the DISTINCT result: SQLite keeps, of the
\* rows of a file, the first it meets in its scan of the table in id order,
\* and sorts the files by the moved_at of that row, latest first; files
\* whose rows have the same moved_at stay in the order of the scan, as rows of
\* equal moved_at do in load_latest_rows.  The set of the one list returned.
KnownFiles(conn) == {conn[i].filename : i \in 1..Len(conn)}

IsOrderOf(seq, set) ==
  /\ Len(seq) = Cardinality(set)
  /\ {seq[i] : i \in 1..Len(seq)} = set

FirstRow(conn, filename) ==
  CHOOSE i \in 1..Len(conn) :
    /\ conn[i].filename = filename
    /\ \A j \in 1..(i - 1) : conn[j].filename # filename

load_known_files(conn) ==
  {seq \in UNION {[1..n -> KnownFiles(conn)] : n \in {Cardinality(KnownFiles(conn))}} :
     /\ IsOrderOf(seq, KnownFiles(conn))
     /\ \A a, b \in 1..Len(seq) :
          a < b =>
            \/ conn[FirstRow(conn, seq[a])].moved_at > conn[FirstRow(conn, seq[b])].moved_at
            \/ /\ conn[FirstRow(conn, seq[a])].moved_at = conn[FirstRow(conn, seq[b])].moved_at
               /\ FirstRow(conn, seq[a]) < FirstRow(conn, seq[b])}

\* ------------------------------------------------------- file placement
\* copy_with_backup(src, dest_dir) for a source of name `name` and text
\* `text`.  inside: src already lies in dest_dir (nothing is copied).
\* The destination file, if any, is renamed to the first free backup name
\* (<stem>.backup, <stem>.backup.1, ...) before the copy.
\* Mutant of copy_with_backup: a source whose text is the text of the target
\* is not copied again.
copy_with_backup_if_changed(dir, baks, name, text, inside) ==
  IF inside \/ dir[name] = FileOf(text) THEN [dir |-> dir, baks |-> baks]
  ELSE [dir |-> [dir EXCEPT ![name] = FileOf(text)],
        baks |-> IF dir[name].exists
                 THEN [baks EXCEPT ![name] = Append(@, dir[name].text)]
                 ELSE baks]

\* Mutant of copy_with_backup: the backup name is always <stem>.backup, no
\* free name is looked for.
copy_with_single_backup(dir, baks, name, text, inside) ==
  IF inside THEN [dir |-> dir, baks |-> baks]
  ELSE [dir |-> [dir EXCEPT ![name] = FileOf(text)],
        baks |-> IF dir[name].exists
                 THEN [baks EXCEPT ![name] = <<dir[name].text>>]
                 ELSE baks]

copy_with_backup(dir, baks, name, text, inside) ==
  IF inside THEN [dir |-> dir, baks |-> baks]
  ELSE [dir |-> [dir EXCEPT ![name] = FileOf(text)],
        baks |-> IF dir[name].exists
                 THEN [baks EXCEPT ![name] = Append(@, dir[name].text)]
                 ELSE baks]

\* archive_final_copy: the archive name is <stem>.<time, to the second><ext>;
\* copy2 replaces an archive file of that name.
archive_final_copy(arch, name, text, clock) ==
  {e \in arch : ~(e.name = name /\ e.ts = clock)}
    \cup {[name |-> name, ts |-> clock, text |-> text]}

\* sorted(manifests.items()): the depots in ascending order.
RECURSIVE SortedSeq(_)
SortedSeq(set) ==
  IF set = {} THEN <<>>
  ELSE LET least == CHOOSE x \in set : \A y \in set : x <= y
       IN  <<least>> \o SortedSeq(set \ {least})

\* ---------------------------------------------------------------- state
VARIABLES
  cPc,      \* codec run: "off", "ready" (a file is given), "updated"
  cFile,    \* codec run: the descriptor file
  cBefore,  \* codec run: the file before update_lua_manifest was called
  cDepot,   \* codec run: the depot argument of the call
  cNew,     \* codec run: the new_manifest argument of the call
  cOk,      \* codec run: the bool the call returned
  cDesc     \* codec run: the arguments of build_lua_content_multi

codecVars == <<cPc, cFile, cBefore, cDepot, cNew, cOk, cDesc>>

VARIABLES
  dest,      \* the destination directory: file name -> file
  backups,   \* file name -> texts of <stem>.backup, <stem>.backup.1, ...
  archive,   \* the archive directory: entries [name, ts, text]
  db,        \* the registry: rows of gamesAdded in id order
  now,       \* the clock, in seconds: it ticks when a worker starts, and
             \* the steps of one worker fall into one second
  ctl,       \* "idle", "inject", "check", "exited" (worker process ended), "apply":
             \* the worker that runs; the user starts the next one when it is done
  toInject,  \* source files the user has still to put on an Inject list
  runs,      \* Check Updates runs started so far
  faults     \* failures so far

VARIABLES
  iLeft,     \* InjectWorker: source files still to process
  copied, skipped, iErrors, archived,   \* InjectWorker: its counters
  placedLog  \* history: file name -> the texts shutil.copy2 has put under it

VARIABLES
  kFiles,    \* check worker: known files still to visit
  kCur,      \* check worker: the file being checked (filename, appid, multi, manifests)
  kDepots,   \* check worker: depots of kCur still to query, ascending
  to_update, \* check worker: the candidates so far
  checked, errors,   \* check worker: its counters
  answers,   \* history: what the resolver did at each query of this run
  stdout     \* what the worker process printed to stdout

VARIABLES
  aItems,    \* UpdateApplyWorker: updates still to apply
  succeeded, failed,   \* UpdateApplyWorker: its counters
  aLog,      \* history: the items of this batch, as processed
  dbFailed   \* history: keys whose registry step raised after the file was updated

diskVars == <<dest, backups, archive, db, now>>
injectVars == <<iLeft, copied, skipped, iErrors, archived, placedLog>>
checkVars == <<kFiles, kCur, kDepots, to_update, checked, errors, answers, stdout>>
applyVars == <<aItems, succeeded, failed, aLog, dbFailed>>
flowVars == <<diskVars, ctl, toInject, runs, faults, injectVars, checkVars, applyVars>>

VARIABLES
  uiEnabled, \* window: the buttons Inject, Check Updates and Locate are enabled
  timers,    \* window: QTimer.singleShot(500, re_enable) calls not yet fired
  pool,      \* window: kind of worker -> workers of it running in the thread pool
  children,  \* window: the check worker processes that run, oldest first;
             \* self.proc is the last one started
  dialog,    \* window: "none", or "question" while the Apply question is open
  starts     \* window: workers and processes started so far

VARIABLES
  pPc,       \* placement: position in copy_with_backup
  pText,     \* placement: the text of the source file
  uPc,       \* update: position in update_lua_manifest
  uText,     \* update: the text read_text returned
  uDepot, uNew,   \* update: the depot and new_manifest arguments
  uOk,       \* update: the bool the call returned
  rBefore    \* history: the destination file when both calls began

windowVars == <<uiEnabled, timers, pool, children, dialog, starts>>
raceVars == <<pPc, pText, uPc, uText, uDepot, uNew, uOk, rBefore>>
otherVars == <<codecVars, windowVars, raceVars>>
vars == <<codecVars, flowVars, windowVars, raceVars>>

\* ------------------------------------------------- codec specification
\* Every item a text of the codec specification is made of.
ItemSet ==
  {AppidItem(a, nl) : a \in AppIds, nl \in BOOLEAN}
    \cup {TokenItem(d, t, nl) : d \in Depots, t \in Tokens, nl \in BOOLEAN}
    \cup {ManifestItem(d, m, f, nl) :
            d \in Depots, m \in ManifestIds, f \in {"0", "other"}, nl \in BOOLEAN}
    \cup {NoteItem(nl) : nl \in BOOLEAN}

\* Every text of at most MaxItems items (the first item starts the first line).
Texts ==
  {t \in UNION {[1..n -> ItemSet] : n \in 0..MaxItems} : Len(t) = 0 \/ t[1].nl}

\* No arguments of build_lua_content_multi.
NoDesc == [appid |-> NoAppid, tokens |-> <<>>, manifests |-> <<>>]

CodecIdle ==
  /\ cPc = "off" /\ cFile = NoFile /\ cBefore = NoFile
  /\ cDepot = 0 /\ cNew = 0 /\ cOk = FALSE /\ cDesc = NoDesc

\* The file names of the descriptors, and the workflows at rest.
Filenames == {"100.lua", "game.lua"}

NoCur == [filename |-> "", appid |-> 0, multi |-> 0, manifests |-> <<>>]

\* The window after MainWindow.__init__: buttons enabled, nothing started.
WindowIdle ==
  /\ uiEnabled = TRUE /\ timers = 0
  /\ pool = [kind \in {"inject", "apply"} |-> 0]
  /\ children = <<>> /\ dialog = "none" /\ starts = 0

\* No call of copy_with_backup or update_lua_manifest under way.
RaceIdle ==
  /\ pPc = "off" /\ pText = <<>>
  /\ uPc = "off" /\ uText = <<>> /\ uDepot = 0 /\ uNew = 0 /\ uOk = FALSE
  /\ rBefore = NoFile

\* No worker runs.
WorkersAtRest(quota) ==
  /\ ctl = "idle" /\ toInject = quota /\ runs = 0 /\ faults = 0
  /\ iLeft = 0 /\ copied = 0 /\ skipped = 0 /\ iErrors = 0 /\ archived = 0
  /\ kFiles = <<>> /\ kCur = NoCur /\ kDepots = <<>> /\ to_update = <<>>
  /\ checked = 0 /\ errors = 0 /\ answers = <<>> /\ stdout = <<>>
  /\ aItems = <<>> /\ succeeded = 0 /\ failed = 0 /\ aLog = <<>>
  /\ dbFailed = {}

FlowAtRest(quota) ==
  /\ dest = [n \in Filenames |-> NoFile]
  /\ backups = [n \in Filenames |-> <<>>]
  /\ archive = {} /\ db = <<>> /\ now = 0
  /\ placedLog = [n \in Filenames |-> <<>>]
  /\ WorkersAtRest(quota)
  /\ WindowIdle /\ RaceIdle

FlowIdle == FlowAtRest(MaxInjects)

CodecInit ==
  /\ cPc = "ready"
  /\ cFile \in {NoFile} \cup {FileOf(t) : t \in Texts}
  /\ cBefore = NoFile /\ cDepot = 0 /\ cNew = 0 /\ cOk = FALSE /\ cDesc = NoDesc
  /\ FlowIdle

\* One call of update_lua_manifest(file_path, depot, new_manifest).
CodecUpdate ==
  /\ cPc = "ready"
  /\ \E depot \in Depots, new_manifest \in ManifestIds, writable \in BOOLEAN :
       LET r == update_lua_manifest(cFile, depot, new_manifest, writable)
       IN  /\ cFile' = r.file
           /\ cOk' = r.ok
           /\ cBefore' = cFile
           /\ cDepot' = depot
           /\ cNew' = new_manifest
  /\ cPc' = "updated"
  /\ UNCHANGED <<cDesc, flowVars, windowVars, raceVars>>

CodecNext == CodecUpdate

SpecCodec == CodecInit /\ [][CodecNext]_vars

\* ----------------------------------------------- serializer specification
\* Every map from some depots to the values of `values`.
MapsTo(values) == UNION {[ds -> values] : ds \in SUBSET Depots}

\* The arguments build_lua_content_multi is called with: an appid, and
\* tokens and manifest ids that may be empty strings.
Descriptors ==
  [appid : AppIds \cup {0},
   tokens : MapsTo(Tokens \cup {0}),
   manifests : MapsTo(ManifestIds \cup {0})]

BuildInit ==
  /\ cPc = "given"
  /\ cDesc \in Descriptors
  /\ cFile = NoFile /\ cBefore = NoFile
  /\ cDepot = 0 /\ cNew = 0 /\ cOk = FALSE
  /\ FlowIdle

\* One call of build_lua_content_multi(appid, tokens, manifests), the text
\* written to a file.
CodecBuild ==
  /\ cPc = "given"
  /\ cFile' = FileOf(build_lua_content_multi(cDesc.appid, cDesc.tokens, cDesc.manifests))
  /\ cPc' = "built"
  /\ UNCHANGED <<cBefore, cDepot, cNew, cOk, cDesc, flowVars, windowVars, raceVars>>

BuildNext == CodecBuild

SpecBuild == BuildInit /\ [][BuildNext]_vars

\* ---------------------------------------------- workflow specification
\* The texts of the source files the user injects.
SourceTexts ==
  { <<AppidItem(100, TRUE), TokenItem(1, 7, TRUE), ManifestItem(1, 1, "0", TRUE)>>,
    <<ManifestItem(1, 1, "other", TRUE), ManifestItem(2, 1, "0", TRUE)>>,
    <<ManifestItem(1, 1, "0", TRUE), NoteItem(TRUE), ManifestItem(1, 1, "0", FALSE)>>,
    <<ManifestItem(2, 1, "0", TRUE), ManifestItem(1, 1, "0", FALSE)>>,
    <<AppidItem(100, TRUE)>>,
    <<AppidItem(100, TRUE), ManifestItem(1, 2, "0", TRUE)>> }

\* The text of the source file game.lua.
GameText ==
  <<AppidItem(100, TRUE), TokenItem(2, 7, TRUE), ManifestItem(1, 1, "0", TRUE)>>

\* infer_appid_from_filename: the first run of digits of the stem; 0 stands
\* for the ValueError the caller turns into 0.
infer_appid_from_filename(name) == IF name = "100.lua" THEN 100 ELSE 0

\* appid = parsed.get("appid") or sidecar.get("appid"), else inferred from
\* the file name (no sidecar file lies beside the sources).
InjectAppid(parsed, name) ==
  IF parsed.appid # NoAppid /\ parsed.appid # 0 THEN parsed.appid
  ELSE infer_appid_from_filename(name)

\* for d, mid in sorted(manifests.items()): record_in_db(...), the first
\* `upto` depots of `depots`.
RECURSIVE RecordAll(_, _, _, _, _, _, _, _)
RecordAll(conn, name, appid, manifests, depots, upto, multi, clock) ==
  IF upto = 0 THEN conn
  ELSE record_in_db(
         RecordAll(conn, name, appid, manifests, depots, upto - 1, multi, clock),
         name, appid, depots[upto], manifests[depots[upto]], DestDir, multi, clock)

FlowInit == FlowIdle /\ CodecIdle

\* inject_clicked: a non-empty list of files starts an InjectWorker.
inject_clicked ==
  /\ ctl = "idle"
  /\ \E n \in 1..toInject : iLeft' = n
  /\ ctl' = "inject"
  /\ now' = now + 1
  /\ copied' = 0 /\ skipped' = 0 /\ iErrors' = 0 /\ archived' = 0
  /\ UNCHANGED <<dest, backups, archive, db, toInject, runs, faults, placedLog,
                 checkVars, applyVars, otherVars>>

\* InjectWorker.run, one source file that is missing or no .lua file.
InjectSkip ==
  /\ ctl = "inject" /\ iLeft > 0
  /\ iLeft' = iLeft - 1
  /\ toInject' = toInject - 1
  /\ skipped' = skipped + 1
  /\ UNCHANGED <<diskVars, ctl, runs, faults, copied, iErrors, archived, placedLog,
                 checkVars, applyVars, otherVars>>

\* What one iteration of InjectWorker.run does to the disk for the source
\* (name, text).  fault: "none", or the call that raises: "replace"
\* (target.replace), "copy2" (shutil.copy2 of the source), "archive"
\* (archive_final_copy), "db" (the record_in_db call number failAt).
InjectEffect(name, text, inside, fault, failAt, clock) ==
  LET parsed == parse_all_from_content(text)
      appid == InjectAppid(parsed, name)
      manifests == parsed.manifests
      depots == SortedSeq(DOMAIN manifests)
      multi_flag == IF Len(depots) > 1 THEN 1 ELSE 0
      placed == copy_with_backup(dest, backups, name, text, inside)
      rows == IF fault = "db" THEN failAt - 1 ELSE Len(depots)
      log == IF inside THEN placedLog ELSE [placedLog EXCEPT ![name] = Append(@, text)]
  IN  IF fault = "replace"
      THEN [dir |-> dest, baks |-> backups, arch |-> archive, conn |-> db,
            log |-> placedLog]
      ELSE IF fault = "copy2"
      THEN [dir |-> [placed.dir EXCEPT ![name] = NoFile], baks |-> placed.baks,
            arch |-> archive, conn |-> db, log |-> placedLog]
      ELSE IF fault = "archive"
      THEN [dir |-> placed.dir, baks |-> placed.baks, arch |-> archive, conn |-> db,
            log |-> log]
      ELSE [dir |-> placed.dir, baks |-> placed.baks,
            arch |-> archive_final_copy(archive, name, placed.dir[name].text, clock),
            conn |-> RecordAll(db, name, appid, manifests, depots, rows, multi_flag, clock),
            log |-> log]

\* The faults an iteration can meet for this source.
InjectFaults(name, text, inside) ==
  {"archive"}
    \cup (IF ~inside THEN {"copy2"} ELSE {})
    \cup (IF ~inside /\ dest[name].exists THEN {"replace"} ELSE {})
    \cup (IF DOMAIN parse_all_from_content(text).manifests # {} THEN {"db"} ELSE {})

\* The sources the user can put on the list: a file outside the destination
\* directory, or a file that already lies in it.
InjectSources ==
  {[name |-> "100.lua", text |-> t, inside |-> FALSE] : t \in SourceTexts}
    \cup {[name |-> "game.lua", inside |-> FALSE, text |-> GameText]}
    \cup {[name |-> n, text |-> dest[n].text, inside |-> TRUE] :
            n \in {x \in Filenames : dest[x].exists}}

\* InjectWorker.run, one source file copied, archived and recorded.
InjectFile ==
  /\ ctl = "inject" /\ iLeft > 0
  /\ \E src \in InjectSources :
       LET e == InjectEffect(src.name, src.text, src.inside, "none", 0, now)
       IN  /\ dest' = e.dir /\ backups' = e.baks
           /\ archive' = e.arch /\ db' = e.conn
           /\ placedLog' = e.log
  /\ iLeft' = iLeft - 1
  /\ toInject' = toInject - 1
  /\ copied' = copied + 1
  /\ archived' = archived + 1
  /\ UNCHANGED <<now, ctl, runs, faults, skipped, iErrors, checkVars, applyVars, otherVars>>

\* InjectWorker.run, one source file whose iteration raises.
InjectFileError ==
  /\ ctl = "inject" /\ iLeft > 0
  /\ faults < MaxFaults
  /\ \E src \in InjectSources :
       \E fault \in InjectFaults(src.name, src.text, src.inside) :
         \E failAt \in 1..(IF fault = "db"
                           THEN Cardinality(DOMAIN parse_all_from_content(src.text).manifests)
                           ELSE 1) :
           LET e == InjectEffect(src.name, src.text, src.inside, fault, failAt, now)
           IN  /\ dest' = e.dir /\ backups' = e.baks
               /\ archive' = e.arch /\ db' = e.conn
               /\ placedLog' = e.log
  /\ faults' = faults + 1
  /\ iLeft' = iLeft - 1
  /\ toInject' = toInject - 1
  /\ iErrors' = iErrors + 1
  /\ UNCHANGED <<now, ctl, runs, copied, skipped, archived, checkVars, applyVars, otherVars>>

\* InjectWorker.run: the list is done, the connection closed, the counts logged.
InjectDone ==
  /\ ctl = "inject" /\ iLeft = 0
  /\ ctl' = "idle"
  /\ copied' = 0 /\ skipped' = 0 /\ iErrors' = 0 /\ archived' = 0
  /\ UNCHANGED <<diskVars, toInject, runs, faults, iLeft, placedLog,
                 checkVars, applyVars, otherVars>>

\* ------------------------------------------------------ reconciliation
\* The for-loop over files up to the next depot to query: a file that is
\* missing ([MISSING]) or holds no manifest marker ([NO MANIFESTS]) is passed.
RECURSIVE NextWork(_, _)
NextWork(files, dir) ==
  IF files = <<>> THEN [cur |-> NoCur, depots |-> <<>>, files |-> <<>>]
  ELSE LET filename == Head(files)
           parsed == parse_all_from_content(dir[filename].text)
           manifests == parsed.manifests
       IN  IF ~dir[filename].exists \/ DOMAIN manifests = {}
           THEN NextWork(Tail(files), dir)
           ELSE [cur |-> [filename |-> filename,
                          appid |-> IF parsed.appid = NoAppid THEN 0 ELSE parsed.appid,
                          multi |-> IF Cardinality(DOMAIN manifests) > 1 THEN 1 ELSE 0,
                          manifests |-> manifests],
                 depots |-> SortedSeq(DOMAIN manifests),
                 files |-> Tail(files)]

\* What the resolver does at one query.
Raised == [kind |-> "raise", v |-> 0]
NoData == [kind |-> "none", v |-> 0]
Latest(v) == [kind |-> "value", v |-> v]

\* Mutant of Candidate: current_manifest is read from the registry's latest
\* row for the key when there is one.
CandidateFromRegistry(cur, depot, latest_manifest) ==
  [filename |-> cur.filename, appid |-> cur.appid, multi |-> cur.multi,
   depot |-> depot,
   current_manifest |->
     IF <<cur.filename, depot>> \in RowKeys(db)
     THEN load_latest_rows(db)[<<cur.filename, depot>>].manifest_id
     ELSE cur.manifests[depot],
   latest_manifest |-> latest_manifest, dest_path |-> DestDir]

Candidate(cur, depot, latest_manifest) ==
  [filename |-> cur.filename, appid |-> cur.appid, multi |-> cur.multi,
   depot |-> depot, current_manifest |-> cur.manifests[depot],
   latest_manifest |-> latest_manifest, dest_path |-> DestDir]

\* Mutant of Differs: the comparison is left out, every answer is an update.
DiffersAlways(latest_manifest, current_manifest) == TRUE

\* if latest_manifest != current_manifest: to_update.append(...)
Differs(latest_manifest, current_manifest) == latest_manifest # current_manifest

\* Mutant of CheckBody: a new candidate is put in front of the list.
CheckBodyPrepend(cur, depot, ans, cands, errs) ==
  IF ans.kind = "raise" THEN [cands |-> cands, errs |-> errs + 1]
  ELSE IF ans.kind = "none" THEN [cands |-> cands, errs |-> errs]
  ELSE IF ans.v # cur.manifests[depot]
       THEN [cands |-> <<[filename |-> cur.filename, appid |-> cur.appid,
                          multi |-> cur.multi, depot |-> depot,
                          current_manifest |-> cur.manifests[depot],
                          latest_manifest |-> ans.v, dest_path |-> DestDir]>> \o cands,
             errs |-> errs]
       ELSE [cands |-> cands, errs |-> errs]

\* Mutant of CheckBody: a resolver error is passed over like an answer
\* without data, the error counter is not touched.
CheckBodyRaiseUncounted(cur, depot, ans, cands, errs) ==
  IF ans.kind = "raise" \/ ans.kind = "none" THEN [cands |-> cands, errs |-> errs]
  ELSE IF Differs(ans.v, cur.manifests[depot])
       THEN [cands |-> Append(cands, Candidate(cur, depot, ans.v)), errs |-> errs]
       ELSE [cands |-> cands, errs |-> errs]

\* The body of "for depot, current_manifest in sorted(manifests.items())" for
\* one answer of the resolver: the candidates and the error count after it.
CheckBody(cur, depot, ans, cands, errs) ==
  IF ans.kind = "raise" THEN [cands |-> cands, errs |-> errs + 1]
  ELSE IF ans.kind = "none" THEN [cands |-> cands, errs |-> errs]
  ELSE IF Differs(ans.v, cur.manifests[depot])
       THEN [cands |-> Append(cands, Candidate(cur, depot, ans.v)), errs |-> errs]
       ELSE [cands |-> cands, errs |-> errs]

\* "continue" and the end of the loop body: the depots and files left.
CheckAdvance(files, cur, depots, dir) ==
  IF Tail(depots) # <<>>
  THEN [cur |-> cur, depots |-> Tail(depots), files |-> files]
  ELSE NextWork(files, dir)

\* check_updates_clicked and the start of run_check_worker_cli: the database
\* exists; without known files, or when make_driver raises, the run is over.
check_updates_clicked ==
  /\ ctl = "idle"
  /\ runs < MaxChecks
  /\ runs' = runs + 1
  /\ now' = now + 1
  /\ to_update' = <<>> /\ checked' = 0 /\ errors' = 0 /\ answers' = <<>>
  /\ \E files \in load_known_files(db) :
       IF files = <<>>
       THEN /\ stdout' = << <<>> >>
            /\ ctl' = "exited"
            /\ kFiles' = <<>> /\ kCur' = NoCur /\ kDepots' = <<>>
       ELSE LET w == NextWork(files, dest)
            IN  /\ kFiles' = w.files /\ kCur' = w.cur /\ kDepots' = w.depots
                /\ IF w.depots = <<>>
                   THEN stdout' = << <<>> >> /\ ctl' = "exited"
                   ELSE stdout' = <<>> /\ ctl' = "check"
  /\ UNCHANGED <<dest, backups, archive, db, toInject, faults, injectVars,
                 applyVars, otherVars>>

\* make_driver or inject_cookies_if_any raises: the finally block closes the
\* connection and the exception ends the process before anything is printed.
CheckDriverFails ==
  /\ ctl = "idle"
  /\ runs < MaxChecks
  /\ faults < MaxFaults
  /\ db # <<>>
  /\ runs' = runs + 1
  /\ now' = now + 1
  /\ faults' = faults + 1
  /\ to_update' = <<>> /\ checked' = 0 /\ errors' = 0 /\ answers' = <<>>
  /\ kFiles' = <<>> /\ kCur' = NoCur /\ kDepots' = <<>>
  /\ stdout' = <<>>
  /\ ctl' = "exited"
  /\ UNCHANGED <<dest, backups, archive, db, toInject, injectVars, applyVars, otherVars>>

\* One query of the resolver and the rest of the loop body; after the last
\* depot of the last file the counts are logged and the JSON array printed.
CheckStep(ans) ==
  LET depot == Head(kDepots)
      body == CheckBody(kCur, depot, ans, to_update, errors)
      w == CheckAdvance(kFiles, kCur, kDepots, dest)
  IN  /\ checked' = checked + 1
      /\ to_update' = body.cands
      /\ errors' = body.errs
      /\ answers' = Append(answers, [filename |-> kCur.filename, depot |-> depot,
                                     kind |-> ans.kind, v |-> ans.v])
      /\ kFiles' = w.files /\ kCur' = w.cur /\ kDepots' = w.depots
      /\ IF w.depots = <<>>
         THEN stdout' = <<body.cands>> /\ ctl' = "exited"
         ELSE stdout' = stdout /\ ctl' = ctl

\* Mutant of CheckQuery: the worker writes the answer to the rows of the
\* depot in the registry.
CheckQueryCorrecting ==
  /\ ctl = "check" /\ kDepots # <<>>
  /\ \E v \in ManifestIds :
       /\ CheckStep(Latest(v))
       /\ db' = update_db_manifest(db, kCur.filename, Head(kDepots), v).conn
  /\ UNCHANGED <<dest, backups, archive, now, toInject, runs, faults, injectVars,
                 applyVars, otherVars>>

CheckQuery ==
  /\ ctl = "check" /\ kDepots # <<>>
  /\ \E v \in ManifestIds : CheckStep(Latest(v))
  /\ UNCHANGED <<diskVars, toInject, runs, faults, injectVars, applyVars, otherVars>>

CheckQueryFails ==
  /\ ctl = "check" /\ kDepots # <<>>
  /\ faults < MaxFaults
  /\ \E ans \in {Raised, NoData} : CheckStep(ans)
  /\ faults' = faults + 1
  /\ UNCHANGED <<diskVars, toInject, runs, injectVars, applyVars, otherVars>>

\* _proc_finished: the updates are read from stdout; with none the user is
\* told so, otherwise asked, and Yes starts an UpdateApplyWorker.
\* Mutant of ProcUpdates: the updates are taken in the reverse order.
ProcUpdatesReversed ==
  IF stdout = <<>> THEN <<>>
  ELSE [i \in 1..Len(stdout[1]) |-> stdout[1][Len(stdout[1]) + 1 - i]]

ProcUpdates == IF stdout = <<>> THEN <<>> ELSE stdout[1]

ResetCheck ==
  /\ kFiles' = <<>> /\ kCur' = NoCur /\ kDepots' = <<>> /\ to_update' = <<>>
  /\ checked' = 0 /\ errors' = 0 /\ answers' = <<>> /\ stdout' = <<>>

proc_finished_none ==
  /\ ctl = "exited"
  /\ ProcUpdates = <<>>
  /\ ctl' = "idle"
  /\ ResetCheck
  /\ UNCHANGED <<diskVars, toInject, runs, faults, injectVars, applyVars, otherVars>>

proc_finished_no ==
  /\ ctl = "exited"
  /\ ProcUpdates # <<>>
  /\ ctl' = "idle"
  /\ ResetCheck
  /\ UNCHANGED <<diskVars, toInject, runs, faults, injectVars, applyVars, otherVars>>

proc_finished_yes ==
  /\ ctl = "exited"
  /\ ProcUpdates # <<>>
  /\ ctl' = "apply"
  /\ aItems' = ProcUpdates
  /\ succeeded' = 0 /\ failed' = 0 /\ aLog' = <<>>
  /\ now' = now + 1
  /\ ResetCheck
  /\ UNCHANGED <<dest, backups, archive, db, toInject, runs, faults, injectVars,
                 dbFailed, otherVars>>

\* --------------------------------------------------------------- apply
\* Mutant of ApplyDb: no row is appended when update_db_manifest affected none.
ApplyDbNoAppend(conn, item, clock) ==
  [conn |-> update_db_manifest(conn, item.filename, item.depot, item.latest_manifest).conn,
   via |-> IF update_db_manifest(conn, item.filename, item.depot,
                                 item.latest_manifest).rowcount = 0
           THEN "append" ELSE "update"]

\* The registry step of one item: update_db_manifest, and record_in_db when
\* no row was affected.
ApplyDb(conn, item, clock) ==
  LET u == update_db_manifest(conn, item.filename, item.depot, item.latest_manifest)
  IN  IF u.rowcount = 0
      THEN [conn |-> record_in_db(conn, item.filename, item.appid, item.depot,
                                  item.latest_manifest, item.dest_path, item.multi, clock),
            via |-> "append"]
      ELSE [conn |-> u.conn, via |-> "update"]

\* Mutant of ApplyItemStep: an item that fails ends the batch.
ApplyItemStepAbort(item, writable, dbRaises) ==
  LET r == update_lua_manifest(dest[item.filename], item.depot, item.latest_manifest, writable)
      ok_file == r.ok
      d == ApplyDb(db, item, now)
      ok_db == ok_file /\ ~dbRaises
  IN  /\ dest' = [dest EXCEPT ![item.filename] = r.file]
      /\ db' = IF ok_db THEN d.conn ELSE db
      /\ succeeded' = IF ok_file /\ ok_db THEN succeeded + 1 ELSE succeeded
      /\ failed' = IF ok_file /\ ok_db THEN failed ELSE failed + 1
      /\ aLog' = Append(aLog, [filename |-> item.filename, depot |-> item.depot,
                               latest_manifest |-> item.latest_manifest,
                               ok_file |-> ok_file, ok_db |-> ok_db,
                               via |-> IF ok_db THEN d.via ELSE "none"])
      /\ dbFailed' = IF ok_file /\ ~ok_db
                     THEN dbFailed \cup {<<item.filename, item.depot>>}
                     ELSE IF ok_file THEN dbFailed \ {<<item.filename, item.depot>>}
                     ELSE dbFailed
      /\ aItems' = IF ok_file /\ ok_db THEN Tail(aItems) ELSE <<>>

\* Mutant of ApplyItemStep: the registry step does not depend on ok_file.
ApplyItemStepDbAlways(item, writable, dbRaises) ==
  LET r == update_lua_manifest(dest[item.filename], item.depot, item.latest_manifest, writable)
      ok_file == r.ok
      d == ApplyDb(db, item, now)
      ok_db == ~dbRaises
  IN  /\ dest' = [dest EXCEPT ![item.filename] = r.file]
      /\ db' = IF ok_db THEN d.conn ELSE db
      /\ succeeded' = IF ok_file /\ ok_db THEN succeeded + 1 ELSE succeeded
      /\ failed' = IF ok_file /\ ok_db THEN failed ELSE failed + 1
      /\ aLog' = Append(aLog, [filename |-> item.filename, depot |-> item.depot,
                               latest_manifest |-> item.latest_manifest,
                               ok_file |-> ok_file, ok_db |-> ok_db,
                               via |-> IF ok_db THEN d.via ELSE "none"])
      /\ dbFailed' = dbFailed
      /\ aItems' = Tail(aItems)

\* One iteration of UpdateApplyWorker.run.  writable = FALSE: write_text
\* raises; dbRaises: the registry step raises.
ApplyItemStep(item, writable, dbRaises) ==
  LET r == update_lua_manifest(dest[item.filename], item.depot, item.latest_manifest, writable)
      ok_file == r.ok
      d == ApplyDb(db, item, now)
      ok_db == ok_file /\ ~dbRaises
  IN  /\ dest' = [dest EXCEPT ![item.filename] = r.file]
      /\ db' = IF ok_db THEN d.conn ELSE db
      /\ succeeded' = IF ok_file /\ ok_db THEN succeeded + 1 ELSE succeeded
      /\ failed' = IF ok_file /\ ok_db THEN failed ELSE failed + 1
      /\ aLog' = Append(aLog, [filename |-> item.filename, depot |-> item.depot,
                               latest_manifest |-> item.latest_manifest,
                               ok_file |-> ok_file, ok_db |-> ok_db,
                               via |-> IF ok_db THEN d.via ELSE "none"])
      /\ dbFailed' = IF ok_file /\ ~ok_db
                     THEN dbFailed \cup {<<item.filename, item.depot>>}
                     ELSE IF ok_file THEN dbFailed \ {<<item.filename, item.depot>>}
                     ELSE dbFailed
      /\ aItems' = Tail(aItems)

\* Whether the calls of the iteration for `item` get as far as write_text.
ReachesWrite(item) ==
  dest[item.filename].exists /\ Pattern2Starts(dest[item.filename].text, item.depot) # {}

ApplyItem ==
  /\ ctl = "apply" /\ aItems # <<>>
  /\ ApplyItemStep(Head(aItems), TRUE, FALSE)
  /\ UNCHANGED <<backups, archive, now, ctl, toInject, runs, faults, injectVars,
                 checkVars, otherVars>>

ApplyItemWriteFails ==
  /\ ctl = "apply" /\ aItems # <<>>
  /\ faults < MaxFaults
  /\ ReachesWrite(Head(aItems))
  /\ ApplyItemStep(Head(aItems), FALSE, FALSE)
  /\ faults' = faults + 1
  /\ UNCHANGED <<backups, archive, now, ctl, toInject, runs, injectVars, checkVars, otherVars>>

ApplyItemDbRaises ==
  /\ ctl = "apply" /\ aItems # <<>>
  /\ faults < MaxFaults
  /\ update_lua_manifest(dest[Head(aItems).filename], Head(aItems).depot,
                         Head(aItems).latest_manifest, TRUE).ok
  /\ ApplyItemStep(Head(aItems), TRUE, TRUE)
  /\ faults' = faults + 1
  /\ UNCHANGED <<backups, archive, now, ctl, toInject, runs, injectVars, checkVars, otherVars>>

\* UpdateApplyWorker.run: the list is done, the connection closed, the counts logged.
ApplyDone ==
  /\ ctl = "apply" /\ aItems = <<>>
  /\ ctl' = "idle"
  /\ succeeded' = 0 /\ failed' = 0 /\ aLog' = <<>>
  /\ UNCHANGED <<diskVars, toInject, runs, faults, injectVars, checkVars, aItems,
                 dbFailed, otherVars>>

FlowNext ==
  \/ inject_clicked \/ InjectSkip \/ InjectFile \/ InjectFileError \/ InjectDone
  \/ check_updates_clicked \/ CheckDriverFails \/ CheckQuery \/ CheckQueryFails
  \/ proc_finished_none \/ proc_finished_no \/ proc_finished_yes
  \/ ApplyItem \/ ApplyItemWriteFails \/ ApplyItemDbRaises \/ ApplyDone

Spec == FlowInit /\ [][FlowNext]_vars

\* ------------------------------------------------- inject specification
\* Inject runs only, over MaxPlacements source files.
InjectInit == FlowAtRest(MaxPlacements) /\ CodecIdle

InjectNext ==
  inject_clicked \/ InjectSkip \/ InjectFile \/ InjectFileError \/ InjectDone

SpecInject == InjectInit /\ [][InjectNext]_vars

\* ----------------------------------------------- registry specification
\* The calls that write the table gamesAdded, in any order and with any
\* arguments, on a database open_db has just created.
RegistryInit == FlowIdle /\ CodecIdle

\* record_in_db(conn, filename, appid, depot, manifest_id, dest_path, multi).
RegistryRecord ==
  /\ Len(db) < MaxRows
  /\ \E filename \in Filenames, depot \in Depots, manifest_id \in ManifestIds :
       db' = record_in_db(db, filename, 100, depot, manifest_id, DestDir, 0, now)
  /\ UNCHANGED <<dest, backups, archive, now, ctl, toInject, runs, faults,
                 injectVars, checkVars, applyVars, otherVars>>

\* CURRENT_TIMESTAMP moves on by a second.
RegistryTick ==
  /\ now < MaxTicks
  /\ now' = now + 1
  /\ UNCHANGED <<dest, backups, archive, db, ctl, toInject, runs, faults,
                 injectVars, checkVars, applyVars, otherVars>>

\* update_db_manifest(conn, filename, depot, new_manifest).
RegistryUpdate ==
  /\ \E filename \in Filenames, depot \in Depots, new_manifest \in ManifestIds :
       db' = update_db_manifest(db, filename, depot, new_manifest).conn
  /\ UNCHANGED <<dest, backups, archive, now, ctl, toInject, runs, faults,
                 injectVars, checkVars, applyVars, otherVars>>

RegistryNext == RegistryRecord \/ RegistryTick \/ RegistryUpdate

SpecRegistry == RegistryInit /\ [][RegistryNext]_vars

\* ---------------------------------------------- reconcile specification
\* Check Updates runs only, on the disk and the registry one Inject batch of
\* the two source files has left.

\* The rows InjectWorker.run records for a file of the text `text`.
InjectedRows(conn, name, text, clock) ==
  LET parsed == parse_all_from_content(text)
      depots == SortedSeq(DOMAIN parsed.manifests)
  IN  RecordAll(conn, name, InjectAppid(parsed, name), parsed.manifests, depots,
                Len(depots), IF Len(depots) > 1 THEN 1 ELSE 0, clock)

ReconcileInit ==
  /\ now = 1
  /\ \E text \in SourceTexts, first \in Filenames :
       LET texts == [n \in Filenames |-> IF n = "100.lua" THEN text ELSE GameText]
           second == CHOOSE n \in Filenames : n # first
       IN  /\ dest = [n \in Filenames |-> FileOf(texts[n])]
           /\ placedLog = [n \in Filenames |-> <<texts[n]>>]
           /\ archive = {[name |-> n, ts |-> 1, text |-> texts[n]] : n \in Filenames}
           /\ db = InjectedRows(InjectedRows(<<>>, first, texts[first], 1),
                                second, texts[second], 1)
  /\ backups = [n \in Filenames |-> <<>>]
  /\ WorkersAtRest(0)
  /\ WindowIdle /\ RaceIdle /\ CodecIdle

\* The worker process is killed while it queries: nothing is printed.
CheckKilled ==
  /\ ctl = "check"
  /\ faults < MaxFaults
  /\ faults' = faults + 1
  /\ ctl' = "exited"
  /\ stdout' = <<>>
  /\ UNCHANGED <<diskVars, toInject, runs, injectVars, kFiles, kCur, kDepots,
                 to_update, checked, errors, answers, applyVars, otherVars>>

ReconcileNext ==
  \/ check_updates_clicked \/ CheckDriverFails \/ CheckQuery \/ CheckQueryFails
  \/ CheckKilled \/ proc_finished_none \/ proc_finished_no

SpecReconcile == ReconcileInit /\ [][ReconcileNext]_vars

\* ------------------------------------------------- window specification
\* The main window: its buttons, the re-enable timers, the workers it puts
\* into the thread pool (which runs them side by side) and the check worker
\* processes it starts.

\* self.proc and self.proc.state() != NotRunning
ProcRunning ==
  children # <<>> /\ children[Len(children)].pc # "exited"

\* A button of the window can be clicked: set_ui_enabled(True) was the last
\* call, and no modal question covers the window.
CanClick == uiEnabled /\ dialog = "none"

WindowInit == FlowIdle /\ CodecIdle

\* inject_clicked with files on the list: the buttons are disabled, the
\* timer that enables them again is set and the worker is started.
ui_inject_clicked ==
  /\ CanClick
  /\ starts < MaxStarts
  /\ uiEnabled' = FALSE
  /\ timers' = timers + 1
  /\ pool' = [pool EXCEPT !["inject"] = @ + 1]
  /\ starts' = starts + 1
  /\ UNCHANGED <<children, dialog, codecVars, flowVars, raceVars>>

\* re_enable, 500 ms after a worker was started.
ui_re_enable ==
  /\ timers > 0
  /\ timers' = timers - 1
  /\ uiEnabled' = TRUE
  /\ UNCHANGED <<pool, children, dialog, starts, codecVars, flowVars, raceVars>>

\* InjectWorker.run returns.
InjectWorkerEnds ==
  /\ pool["inject"] > 0
  /\ pool' = [pool EXCEPT !["inject"] = @ - 1]
  /\ UNCHANGED <<uiEnabled, timers, children, dialog, starts, codecVars, flowVars, raceVars>>

\* UpdateApplyWorker.run returns.
ApplyWorkerEnds ==
  /\ pool["apply"] > 0
  /\ pool' = [pool EXCEPT !["apply"] = @ - 1]
  /\ UNCHANGED <<uiEnabled, timers, children, dialog, starts, codecVars, flowVars, raceVars>>

\* Mutant of ui_check_updates_clicked: no test of self.proc, and the buttons
\* stay enabled.
ui_check_updates_clicked_again ==
  /\ CanClick
  /\ starts < MaxStarts
  /\ \E n \in 0..MaxQueries :
       children' = Append(children, [pc |-> "loop", left |-> n])
  /\ uiEnabled' = uiEnabled
  /\ starts' = starts + 1
  /\ UNCHANGED <<timers, pool, dialog, codecVars, flowVars, raceVars>>

\* check_updates_clicked: with a worker process running it only logs a
\* warning; otherwise it starts a process, which has some depots to query,
\* and disables the buttons.
ui_check_updates_clicked ==
  /\ CanClick
  /\ starts < MaxStarts
  /\ ~ProcRunning
  /\ \E n \in 0..MaxQueries :
       children' = Append(children, [pc |-> "loop", left |-> n])
  /\ uiEnabled' = FALSE
  /\ starts' = starts + 1
  /\ UNCHANGED <<timers, pool, dialog, codecVars, flowVars, raceVars>>

\* A worker process calls get_latest_manifest_for_depot for its next depot.
ChildQuery ==
  \E i \in 1..Len(children) :
    /\ children[i].pc = "loop" /\ children[i].left > 0
    /\ children' = [children EXCEPT ![i].pc = "query"]
    /\ UNCHANGED <<uiEnabled, timers, pool, dialog, starts, codecVars, flowVars, raceVars>>

\* The call returns or raises, and the loop goes on.
ChildAnswer ==
  \E i \in 1..Len(children) :
    /\ children[i].pc = "query"
    /\ children' = [children EXCEPT ![i] = [pc |-> "loop", left |-> @.left - 1]]
    /\ UNCHANGED <<uiEnabled, timers, pool, dialog, starts, codecVars, flowVars, raceVars>>

\* A worker process ends: after its last depot, by an exception, or killed.
ChildExit ==
  \E i \in 1..Len(children) :
    /\ children[i].pc # "exited"
    /\ children' = [children EXCEPT ![i].pc = "exited"]
    /\ UNCHANGED <<uiEnabled, timers, pool, dialog, starts, codecVars, flowVars, raceVars>>

\* _proc_finished: the buttons are enabled; with updates the question is asked.
ui_proc_finished ==
  \E i \in 1..Len(children) :
    /\ children[i].pc = "exited"
    /\ dialog = "none"
    /\ children' = SubSeq(children, 1, i - 1) \o SubSeq(children, i + 1, Len(children))
    /\ uiEnabled' = TRUE
    /\ \E updates \in BOOLEAN : dialog' = IF updates THEN "question" ELSE "none"
    /\ UNCHANGED <<timers, pool, starts, codecVars, flowVars, raceVars>>

\* The user answers Yes: an UpdateApplyWorker is started as an InjectWorker is.
ui_apply_yes ==
  /\ dialog = "question"
  /\ starts < MaxStarts
  /\ dialog' = "none"
  /\ uiEnabled' = FALSE
  /\ timers' = timers + 1
  /\ pool' = [pool EXCEPT !["apply"] = @ + 1]
  /\ starts' = starts + 1
  /\ UNCHANGED <<children, codecVars, flowVars, raceVars>>

\* The user answers No.
ui_apply_no ==
  /\ dialog = "question"
  /\ dialog' = "none"
  /\ UNCHANGED <<uiEnabled, timers, pool, children, starts, codecVars, flowVars, raceVars>>

WindowNext ==
  \/ ui_inject_clicked \/ ui_re_enable \/ InjectWorkerEnds \/ ApplyWorkerEnds
  \/ ui_check_updates_clicked \/ ChildQuery \/ ChildAnswer \/ ChildExit
  \/ ui_proc_finished \/ ui_apply_yes \/ ui_apply_no

SpecWindow == WindowInit /\ [][WindowNext]_vars

\* --------------------------------------------------- race specification
\* An InjectWorker and an UpdateApplyWorker run side by side in the thread
\* pool: one call of copy_with_backup and one call of update_lua_manifest on
\* the same destination file, each a sequence of file system calls.
RaceFile == "100.lua"

\* write() at offset 0 of a file that holds `old`: the first Len(new) items
\* are replaced, what lies behind them stays.
Overwrite(old, new) == new \o SubSeq(old, Len(new) + 1, Len(old))

\* The file was injected before, Check Updates emitted a candidate that the
\* user applies, the timer has enabled the buttons again and the user has
\* clicked Inject with a source file of the same name.
RaceInit ==
  /\ now = 1
  /\ \E text \in SourceTexts :
       /\ dest = [n \in Filenames |-> IF n = RaceFile THEN FileOf(text) ELSE NoFile]
       /\ placedLog = [n \in Filenames |-> IF n = RaceFile THEN <<text>> ELSE <<>>]
       /\ archive = {[name |-> RaceFile, ts |-> 1, text |-> text]}
       /\ db = InjectedRows(<<>>, RaceFile, text, 1)
       /\ rBefore = FileOf(text)
  /\ backups = [n \in Filenames |-> <<>>]
  /\ WorkersAtRest(0) /\ CodecIdle
  /\ uiEnabled = FALSE /\ timers = 1
  /\ pool = [kind \in {"inject", "apply"} |-> 1]
  /\ children = <<>> /\ dialog = "none" /\ starts = 3
  /\ pPc = "exists" /\ pText \in SourceTexts
  /\ uPc = "exists" /\ uText = <<>> /\ uOk = FALSE
  /\ uDepot \in Depots /\ uNew \in ManifestIds

\* copy_with_backup: target.exists().
PlaceExists ==
  /\ pPc = "exists"
  /\ pPc' = IF dest[RaceFile].exists THEN "rename" ELSE "open"
  /\ UNCHANGED <<pText, uPc, uText, uDepot, uNew, uOk, rBefore,
                 codecVars, flowVars, windowVars>>

\* copy_with_backup: the first free backup name is found and
\* target.replace(backup) moves the file, and a writer that has it open
\* with it.
PlaceRename ==
  /\ pPc = "rename"
  /\ pPc' = "open"
  /\ dest' = [dest EXCEPT ![RaceFile] = NoFile]
  /\ backups' = [backups EXCEPT ![RaceFile] = Append(@, dest[RaceFile].text)]
  /\ uPc' = IF uPc = "write" THEN "moved" ELSE uPc
  /\ UNCHANGED <<pText, uText, uDepot, uNew, uOk, rBefore, archive, db, now,
                 ctl, toInject, runs, faults, injectVars, checkVars, applyVars,
                 codecVars, windowVars>>

\* shutil.copy2: the target is opened for writing, which creates it or
\* empties it.
PlaceOpen ==
  /\ pPc = "open"
  /\ pPc' = "write"
  /\ dest' = [dest EXCEPT ![RaceFile] = FileOf(<<>>)]
  /\ UNCHANGED <<pText, uPc, uText, uDepot, uNew, uOk, rBefore, backups, archive,
                 db, now, ctl, toInject, runs, faults, injectVars, checkVars,
                 applyVars, codecVars, windowVars>>

\* shutil.copy2: the text of the source file is written.
PlaceWrite ==
  /\ pPc = "write"
  /\ pPc' = "done"
  /\ dest' = [dest EXCEPT ![RaceFile] = FileOf(Overwrite(@.text, pText))]
  /\ UNCHANGED <<pText, uPc, uText, uDepot, uNew, uOk, rBefore, backups, archive,
                 db, now, ctl, toInject, runs, faults, injectVars, checkVars,
                 applyVars, codecVars, windowVars>>

\* update_lua_manifest: file_path.exists().
UpdateExists ==
  /\ uPc = "exists"
  /\ uPc' = IF dest[RaceFile].exists THEN "read" ELSE "done"
  /\ UNCHANGED <<pPc, pText, uText, uDepot, uNew, uOk, rBefore,
                 codecVars, flowVars, windowVars>>

\* update_lua_manifest: read_text (it raises when the file is gone) and the
\* substitutions; with no marker of the depot the call returns False.
UpdateRead ==
  /\ uPc = "read"
  /\ uText' = IF dest[RaceFile].exists THEN dest[RaceFile].text ELSE <<>>
  /\ uPc' = IF dest[RaceFile].exists
               /\ Pattern1Starts(dest[RaceFile].text, uDepot)
                    \cup Pattern2Starts(dest[RaceFile].text, uDepot) # {}
            THEN "open" ELSE "done"
  /\ UNCHANGED <<pPc, pText, uDepot, uNew, uOk, rBefore,
                 codecVars, flowVars, windowVars>>

\* update_lua_manifest: write_text opens the file for writing, which
\* creates it or empties it.
UpdateOpen ==
  /\ uPc = "open"
  /\ uPc' = "write"
  /\ dest' = [dest EXCEPT ![RaceFile] = FileOf(<<>>)]
  /\ UNCHANGED <<pPc, pText, uText, uDepot, uNew, uOk, rBefore, backups, archive,
                 db, now, ctl, toInject, runs, faults, injectVars, checkVars,
                 applyVars, codecVars, windowVars>>

\* update_lua_manifest: write_text writes new_text to the file it opened,
\* under the name the file now has, and the written text is checked.
UpdateWrite ==
  /\ uPc \in {"write", "moved"}
  /\ uPc' = "done"
  /\ LET new_text == update_lua_manifest(FileOf(uText), uDepot, uNew, TRUE).file.text
     IN  /\ dest' = IF uPc = "write"
                    THEN [dest EXCEPT ![RaceFile] = FileOf(Overwrite(@.text, new_text))]
                    ELSE dest
         /\ backups' = IF uPc = "moved"
                       THEN [backups EXCEPT ![RaceFile][Len(backups[RaceFile])] =
                                              Overwrite(@, new_text)]
                       ELSE backups
         /\ uOk' = CheckWritten(new_text, uDepot, uNew)
  /\ UNCHANGED <<pPc, pText, uText, uDepot, uNew, rBefore, archive, db, now,
                 ctl, toInject, runs, faults, injectVars, checkVars, applyVars,
                 codecVars, windowVars>>

RaceNext ==
  \/ PlaceExists \/ PlaceRename \/ PlaceOpen \/ PlaceWrite
  \/ UpdateExists \/ UpdateRead \/ UpdateOpen \/ UpdateWrite

SpecRace == RaceInit /\ [][RaceNext]_vars

\* ------------------------------------------------------- claims: codec
\* The call was made for an UpdateCandidate: the depot has a manifest id in
\* the file as parsed, and the new id differs from it.
CodecCandidate ==
  /\ cPc = "updated"
  /\ cBefore.exists
  /\ cDepot \in DOMAIN parse_all_from_content(cBefore.text).manifests
  /\ cNew # parse_all_from_content(cBefore.text).manifests[cDepot]

\* C1: when update_lua_manifest reports success for a candidate, parsing the
\* file again gives the candidate's latest manifest id for the depot, read
\* from an occurrence whose trailing flag is 0.
C1_UpdatedFileParsesToLatest ==
  (CodecCandidate /\ cOk) =>
    /\ cDepot \in DOMAIN parse_all_from_content(cFile.text).manifests
    /\ parse_all_from_content(cFile.text).manifests[cDepot] = cNew
    /\ LastFlagOf(cFile.text, cDepot) = "0"

\* C3: a call for a depot that has no manifest marker in the file, or for a
\* missing file, returns False and leaves the file as it was.
C3_AbsentDepotNotApplied ==
  (cPc = "updated"
     /\ (~cBefore.exists \/ cDepot \notin KeysOf(cBefore.text, "manifest")))
    => (~cOk /\ cFile = cBefore)

\* C3 witness: the updater was called on a file that holds manifest markers
\* of another depot only.
C3_Witness ==
  /\ cPc = "updated"
  /\ cBefore.exists
  /\ KeysOf(cBefore.text, "manifest") # {}
  /\ cDepot \notin KeysOf(cBefore.text, "manifest")
  /\ ~cOk

\* ---------------------------------------------------- claims: workflows
\* The manifest ids the descriptor file `name` parses to.
FileManifests(name) == parse_all_from_content(dest[name].text).manifests

HasCandidate(filename, depot) ==
  \E i \in 1..Len(to_update) :
     to_update[i].filename = filename /\ to_update[i].depot = depot

\* A reconciliation run is under way or has just ended (dest and db do not
\* change from its start to _proc_finished).
InCheck == ctl = "check" \/ ctl = "exited"

\* The loop of a reconciliation run has ended and the array was printed.
CheckEnded == ctl = "exited" /\ stdout # <<>>

Applied(e) == e.ok_file /\ e.ok_db

\* C2: every item the running Apply batch has counted as succeeded has its
\* latest_manifest as the manifest id of the registry's latest row for
\* (filename, depot), whether rows of the key were updated or one was appended.
C2_SucceededItemIsLatestRow ==
  ctl = "apply" =>
    \A i \in 1..Len(aLog) :
       Applied(aLog[i]) =>
         /\ <<aLog[i].filename, aLog[i].depot>> \in DOMAIN load_latest_rows(db)
         /\ load_latest_rows(db)[<<aLog[i].filename, aLog[i].depot>>].manifest_id
              = aLog[i].latest_manifest

\* C2 witness: one batch has applied an item by updating rows in place and
\* another by the fall-back to record_in_db.
C2_Witness ==
  /\ ctl = "apply"
  /\ succeeded = 2
  /\ \E i \in 1..Len(aLog) : Applied(aLog[i]) /\ aLog[i].via = "update"
  /\ \E i \in 1..Len(aLog) : Applied(aLog[i]) /\ aLog[i].via = "append"

\* C4: an Apply iteration whose file update fails counts the item as failed,
\* not as succeeded, and leaves the registry as it was.
C4_FailedFileUpdateLeavesRegistry ==
  [][(ctl = "apply" /\ Len(aLog') = Len(aLog) + 1 /\ ~aLog'[Len(aLog')].ok_file)
       => (db' = db /\ failed' = failed + 1 /\ succeeded' = succeeded)]_vars

\* C4 witness: the last item processed failed in its file update, while the
\* registry holds rows of its key with another manifest id.
C4_Witness ==
  /\ ctl = "apply"
  /\ aLog # <<>>
  /\ ~aLog[Len(aLog)].ok_file
  /\ failed > 0
  /\ \E i \in 1..Len(db) :
       /\ RowMatches(db[i], aLog[Len(aLog)].filename, aLog[Len(aLog)].depot)
       /\ db[i].manifest_id # aLog[Len(aLog)].latest_manifest

\* The file holds a manifest id for the key that the registry's latest row
\* does not report.
FileAhead(key) ==
  /\ dest[key[1]].exists
  /\ key[2] \in DOMAIN FileManifests(key[1])
  /\ \/ key \notin DOMAIN load_latest_rows(db)
     \/ load_latest_rows(db)[key].manifest_id # FileManifests(key[1])[key[2]]

\* C5: a reconciliation run that ends without a resolver failure has a
\* candidate for every key whose registry step raised in Apply after the file
\* was updated and whose file is still ahead of the registry.
C5_ReconcileDetectsFileAhead ==
  (CheckEnded /\ \A i \in 1..Len(answers) : answers[i].kind = "value") =>
    \A key \in dbFailed : FileAhead(key) => HasCandidate(key[1], key[2])

\* The manifest markers of a depot in a text, and the rows of a key.
MarkersOf(text, depot) ==
  SelectSeq(text, LAMBDA it : it.k = "manifest" /\ it.d = depot)

RowsOf(conn, filename, depot) ==
  SelectSeq(conn, LAMBDA row : RowMatches(row, filename, depot))

\* C6: an Apply iteration that counts its item as failed leaves the manifest
\* markers and the registry rows of every item the batch has counted as
\* succeeded before exactly as they are.
C6_FailedItemKeepsEarlierItems ==
  [][(ctl = "apply" /\ failed' = failed + 1) =>
       \A i \in 1..Len(aLog) :
          Applied(aLog[i]) =>
            /\ MarkersOf(dest'[aLog[i].filename].text, aLog[i].depot)
                 = MarkersOf(dest[aLog[i].filename].text, aLog[i].depot)
            /\ RowsOf(db', aLog[i].filename, aLog[i].depot)
                 = RowsOf(db, aLog[i].filename, aLog[i].depot)]_vars

\* C7: during and at the end of a reconciliation run, a queried depot has a
\* candidate exactly when the resolver answered with a manifest id that
\* differs from the one the file holds for the depot.
C7_CandidateIffAnswerDiffers ==
  InCheck =>
    /\ \A i \in 1..Len(answers) :
         HasCandidate(answers[i].filename, answers[i].depot)
           <=> (answers[i].kind = "value"
                  /\ answers[i].v # FileManifests(answers[i].filename)[answers[i].depot])
    /\ \A j \in 1..Len(to_update) :
         \E i \in 1..Len(answers) :
            /\ answers[i].filename = to_update[j].filename
            /\ answers[i].depot = to_update[j].depot
            /\ answers[i].v = to_update[j].latest_manifest

\* C7 witness: a run has ended with a candidate for a depot whose answer
\* differed and none for a depot whose answer was the file's manifest id.
C7_Witness ==
  /\ CheckEnded
  /\ \E i \in 1..Len(answers) :
       /\ answers[i].kind = "value"
       /\ answers[i].v = FileManifests(answers[i].filename)[answers[i].depot]
       /\ ~HasCandidate(answers[i].filename, answers[i].depot)
  /\ \E i \in 1..Len(answers) :
       /\ answers[i].kind = "value"
       /\ answers[i].v # FileManifests(answers[i].filename)[answers[i].depot]
       /\ HasCandidate(answers[i].filename, answers[i].depot)

\* The (file, depot) pairs a run has to query: the depots of the manifest
\* markers of every known file that exists.
PairsToQuery ==
  {<<f, d>> \in KnownFiles(db) \X Depots :
     dest[f].exists /\ d \in DOMAIN FileManifests(f)}

RaisedAt == {i \in 1..Len(answers) : answers[i].kind = "raise"}

\* C8: a reconciliation run in which the resolver raised reaches its end with
\* the error counter at the number of raised queries and no candidate for
\* their depots, while every pair to query was queried once and every other
\* answered depot has its candidate exactly when the answer differs.
C8_RaiseSkipsOnlyThatDepot ==
  (CheckEnded /\ RaisedAt # {}) =>
    /\ errors = Cardinality(RaisedAt)
    /\ \A i \in RaisedAt : ~HasCandidate(answers[i].filename, answers[i].depot)
    /\ {<<answers[i].filename, answers[i].depot>> : i \in 1..Len(answers)} = PairsToQuery
    /\ Len(answers) = Cardinality(PairsToQuery)
    /\ checked = Len(answers)
    /\ \A i \in (1..Len(answers)) \ RaisedAt :
         answers[i].kind = "value" =>
           (HasCandidate(answers[i].filename, answers[i].depot)
              <=> answers[i].v # FileManifests(answers[i].filename)[answers[i].depot])

\* C8 witness: the resolver raised for one depot, and a depot queried after
\* it got its candidate.
C8_Witness ==
  /\ CheckEnded
  /\ errors = 1
  /\ \E i \in RaisedAt :
       \E j \in (i + 1)..Len(answers) :
          /\ answers[j].kind = "value"
          /\ HasCandidate(answers[j].filename, answers[j].depot)

\* C9: during and at the end of a reconciliation run the error counter is the
\* number of queries for which the resolver raised or returned no data.
C9_NoDataCountsAsError ==
  InCheck =>
    errors = Cardinality({i \in 1..Len(answers) :
                            answers[i].kind = "raise" \/ answers[i].kind = "none"})

\* The registry agrees with the file on the key's manifest id.
RegistryAgrees(filename, depot) ==
  /\ <<filename, depot>> \in DOMAIN load_latest_rows(db)
  /\ load_latest_rows(db)[<<filename, depot>>].manifest_id = FileManifests(filename)[depot]

\* C10: every candidate carries as current_manifest the manifest id the file
\* holds for the depot, and for a depot on which the registry has no row or
\* another manifest id than the file, the candidate is there exactly when the
\* answer differs from the file's manifest id.
C10_FileIsGroundTruth ==
  InCheck =>
    /\ \A j \in 1..Len(to_update) :
         to_update[j].current_manifest
           = FileManifests(to_update[j].filename)[to_update[j].depot]
    /\ \A i \in 1..Len(answers) :
         (answers[i].kind = "value"
            /\ ~RegistryAgrees(answers[i].filename, answers[i].depot)) =>
           (HasCandidate(answers[i].filename, answers[i].depot)
              <=> answers[i].v # FileManifests(answers[i].filename)[answers[i].depot])

\* C10 witness: a run has ended with a candidate for a depot whose answer is
\* the manifest id of the registry's latest row, the file holding another.
C10_Witness ==
  /\ CheckEnded
  /\ \E i \in 1..Len(answers) :
       /\ answers[i].kind = "value"
       /\ <<answers[i].filename, answers[i].depot>> \in DOMAIN load_latest_rows(db)
       /\ load_latest_rows(db)[<<answers[i].filename, answers[i].depot>>].manifest_id
            = answers[i].v
       /\ HasCandidate(answers[i].filename, answers[i].depot)
       /\ \E j \in 1..Len(to_update) :
            /\ to_update[j].filename = answers[i].filename
            /\ to_update[j].depot = answers[i].depot
            /\ to_update[j].current_manifest # answers[i].v

\* ----------------------------------------------------- claims: registry
\* The rows of a key, as indexes into the registry.
IndexesOf(conn, key) == {i \in 1..Len(conn) : RowMatches(conn[i], key[1], key[2])}

\* C11: when a key has two rows and one has the later moved_at, the dict of
\* load_latest_rows has one entry for the key, and it is the later row.
C11_LaterRowWins ==
  \A i, j \in 1..Len(db) :
     LET key == <<db[j].filename, db[j].depot>>
     IN  (IndexesOf(db, key) = {i, j} /\ db[i].moved_at < db[j].moved_at) =>
           /\ key \in DOMAIN load_latest_rows(db)
           /\ load_latest_rows(db)[key] = db[j]

\* C11 witness: a key has two rows with different manifest ids, the second
\* recorded a second after the first.
C11_Witness ==
  \E i, j \in 1..Len(db) :
     /\ IndexesOf(db, <<db[j].filename, db[j].depot>>) = {i, j}
     /\ db[i].moved_at < db[j].moved_at
     /\ db[i].manifest_id # db[j].manifest_id

\* ---------------------------------------------------- claims: placement
\* The file now under a name in the destination directory, if any.
LiveText(name) == IF dest[name].exists THEN <<dest[name].text>> ELSE <<>>

\* C12: the backups of a name, oldest first, followed by the file under the
\* name are the texts placed under it, in the order of their placement: after
\* N placements with the last one live there are N - 1 backups, each holding
\* the text that was live when the next one was placed.
C12_BackupsKeepEveryPlacement ==
  \A name \in Filenames :
     /\ backups[name] \o LiveText(name) = placedLog[name]
     /\ dest[name].exists => Len(backups[name]) = Len(placedLog[name]) - 1

\* C12 witness: three different texts were placed under one name, the last
\* one is live and two backups exist.
C12_Witness ==
  \E name \in Filenames :
     /\ Len(placedLog[name]) = 3
     /\ placedLog[name][1] # placedLog[name][2]
     /\ placedLog[name][2] # placedLog[name][3]
     /\ placedLog[name][1] # placedLog[name][3]
     /\ dest[name].exists
     /\ Len(backups[name]) = 2

\* The step places under `name`, from outside the destination directory, the
\* text that is live under it: the source of the placement before, unchanged.
SamePlacedAgain(name) ==
  /\ dest[name].exists
  /\ placedLog'[name] = Append(placedLog[name], dest[name].text)

\* The step is an iteration for a source that lies in the destination
\* directory: it is counted as copied and nothing was copied.
InsidePlacedAgain == copied' = copied + 1 /\ placedLog' = placedLog

\* C13 as claimed: placing the unchanged source a second time leaves the
\* file under its name as it is and creates no further backup.
C13_SecondPlacementAddsNoBackup ==
  [][\A name \in Filenames :
       (SamePlacedAgain(name) \/ InsidePlacedAgain) =>
         (dest'[name] = dest[name] /\ backups'[name] = backups[name])]_vars

\* C13 as amended: placing the unchanged source a second time leaves the
\* same text live under the same name; from outside the destination
\* directory it adds one backup, holding that text, and for a source that
\* lies in the destination directory it adds none.
C13_SecondPlacementRotatesUnlessInside ==
  [][\A name \in Filenames :
       /\ SamePlacedAgain(name) =>
            /\ dest'[name] = dest[name]
            /\ backups'[name] = Append(backups[name], dest[name].text)
       /\ InsidePlacedAgain =>
            (dest'[name] = dest[name] /\ backups'[name] = backups[name])]_vars

\* C13 witness: the same text was placed twice in a row under a name from
\* outside, it is live, and the newest backup holds it too.
C13_Witness ==
  \E name \in Filenames :
     /\ Len(placedLog[name]) = 2
     /\ placedLog[name][1] = placedLog[name][2]
     /\ dest[name] = FileOf(placedLog[name][2])
     /\ backups[name] = <<placedLog[name][1]>>

\* ------------------------------------------------ claims: serializer
\* The descriptor has a depot, and no token or manifest id of it is empty.
WellFormed(desc) ==
  /\ DOMAIN desc.tokens \cup DOMAIN desc.manifests # {}
  /\ \A d \in DOMAIN desc.tokens : Truthy(desc.tokens[d])
  /\ \A d \in DOMAIN desc.manifests : Truthy(desc.manifests[d])

\* C14: parsing the text built from a well-formed descriptor gives the
\* descriptor's appid, its depot-to-token map and its depot-to-manifest map.
C14_ParseOfBuiltIsDescriptor ==
  (cPc = "built" /\ WellFormed(cDesc)) =>
    /\ parse_all_from_content(cFile.text).appid = cDesc.appid
    /\ parse_all_from_content(cFile.text).tokens = cDesc.tokens
    /\ parse_all_from_content(cFile.text).manifests = cDesc.manifests

\* C14 witness: a text was built from a well-formed descriptor in which one
\* depot has a token only and another a manifest id only.
C14_Witness ==
  /\ cPc = "built"
  /\ WellFormed(cDesc)
  /\ DOMAIN cDesc.tokens \ DOMAIN cDesc.manifests # {}
  /\ DOMAIN cDesc.manifests \ DOMAIN cDesc.tokens # {}
  /\ Len(cFile.text) = 3

\* ------------------------------------------------ claims: frame of update
\* C15: a successful update_lua_manifest for a depot leaves the appid, every
\* token and the manifest id of every other depot as they parsed before.
C15_UpdateKeepsOtherMarkers ==
  (cPc = "updated" /\ cOk) =>
    LET before == parse_all_from_content(cBefore.text)
        after == parse_all_from_content(cFile.text)
    IN  /\ after.appid = before.appid
        /\ after.tokens = before.tokens
        /\ DOMAIN after.manifests \ {cDepot} = DOMAIN before.manifests \ {cDepot}
        /\ \A d \in DOMAIN before.manifests \ {cDepot} :
             d \in DOMAIN after.manifests
               /\ after.manifests[d] = before.manifests[d]

\* ------------------------------------------------ claims: archive
\* C16: an archive entry, once created, is never changed, replaced or
\* deleted by a later step.
C16_ArchiveEntriesStay ==
  [][\A e \in archive : e \in archive']_vars

\* The archive entry created in this step for the content `name` has on disk
\* after it.
ArchivedNow(name) ==
  /\ dest'[name].exists
  /\ [name |-> name, ts |-> now', text |-> dest'[name].text] \in archive'
  /\ [name |-> name, ts |-> now', text |-> dest'[name].text] \notin archive
       \/ archived' = archived + 1

\* C17: a step that injects a file successfully, and a step in which
\* update_lua_manifest succeeds, creates an archive entry with the content the
\* descriptor then has on disk.
C17_SuccessCreatesArchiveEntry ==
  [][/\ (ctl = "inject" /\ copied' = copied + 1 /\ iErrors' = iErrors)
          => \E name \in Filenames : ArchivedNow(name)
     /\ (ctl = "apply" /\ Len(aLog') = Len(aLog) + 1 /\ aLog'[Len(aLog')].ok_file)
          => ArchivedNow(aLog'[Len(aLog')].filename)]_vars

\* ------------------------------------------------ claims: registry rows
\* C18: no step removes a registry row or changes anything but the manifest id
\* of an existing row, and a step that records a row adds it whether or not
\* rows of its (filename, depot) exist: the number of rows never decreases.
C18_RowsStayAndAppendAdds ==
  [][/\ Len(db') >= Len(db)
     /\ \A i \in 1..Len(db) :
          i <= Len(db') /\ [db'[i] EXCEPT !.manifest_id = db[i].manifest_id] = db[i]
     /\ RegistryRecord => Len(db') = Len(db) + 1]_vars

\* C18 witness: a row was recorded for a key that had one, another key has a
\* row, and the rows of the first key were updated to one manifest id.
C18_Witness ==
  \E i, j, k \in 1..Len(db) :
     /\ i < j
     /\ RowMatches(db[j], db[i].filename, db[i].depot)
     /\ db[i].moved_at < db[j].moved_at
     /\ db[i].manifest_id = db[j].manifest_id
     /\ ~RowMatches(db[k], db[i].filename, db[i].depot)

\* ------------------------------------------------ claims: worker output
\* C19: a check worker that has ended has written exactly one JSON array to
\* stdout, whatever made it end.
C19_EndedRunPrintedOneArray ==
  ctl = "exited" => Len(stdout) = 1

\* ------------------------------------------------ claims: apply order
\* The step touches no file and no registry row but those of `item`.
TouchesOnly(item) ==
  /\ \A name \in Filenames \ {item.filename} : dest'[name] = dest[name]
  /\ \A i \in 1..Len(db) :
       ~RowMatches(db[i], item.filename, item.depot) => db'[i] = db[i]
  /\ \A i \in (Len(db) + 1)..Len(db') :
       RowMatches(db'[i], item.filename, item.depot)

\* C20: an Apply batch starts with the candidates in the order the check
\* worker printed them, and every step of it processes the first candidate
\* not yet processed, alone and to its end, and removes it from the list.
C20_AppliedInEmittedOrder ==
  [][/\ (ctl = "exited" /\ ctl' = "apply")
          => (aItems' = stdout[1] /\ aLog' = <<>>)
     /\ (ctl = "apply" /\ ctl' = "apply")
          => \/ UNCHANGED <<aItems, aLog, dest, db>>
             \/ /\ aItems # <<>>
                /\ aItems' = Tail(aItems)
                /\ Len(aLog') = Len(aLog) + 1
                /\ SubSeq(aLog', 1, Len(aLog)) = aLog
                /\ aLog'[Len(aLog')].filename = Head(aItems).filename
                /\ aLog'[Len(aLog')].depot = Head(aItems).depot
                /\ aLog'[Len(aLog')].latest_manifest = Head(aItems).latest_manifest
                /\ TouchesOnly(Head(aItems))]_vars

\* C20 witness: a batch of two candidates of different depots has been
\* processed to its end.
C20_Witness ==
  /\ ctl = "apply"
  /\ aItems = <<>>
  /\ Len(aLog) = 2
  /\ aLog[1].depot # aLog[2].depot
  /\ aLog[1].ok_file /\ aLog[2].ok_file

\* ------------------------------------------------ claims: window
\* C21: at most one worker that changes files and registry, an InjectWorker
\* or an UpdateApplyWorker, runs at any time.
C21_OneMutatingWorker ==
  pool["inject"] + pool["apply"] <= 1

LastTouched(conn, filename) ==
  CHOOSE t \in {conn[i].moved_at : i \in 1..Len(conn)} :
    /\ \E i \in 1..Len(conn) : conn[i].filename = filename /\ conn[i].moved_at = t
    /\ \A i \in 1..Len(conn) : conn[i].filename = filename => conn[i].moved_at <= t

\* C23: load_known_files returns every file of the registry once, the file
\* touched most recently first.
C23_KnownFilesOnceLatestFirst ==
  \A seq \in load_known_files(db) :
     /\ IsOrderOf(seq, KnownFiles(db))
     /\ \A a, b \in 1..Len(seq) :
          a < b => LastTouched(db, seq[a]) >= LastTouched(db, seq[b])

\* ------------------------------------------------ claims: multi flag
\* The depot entries of a text: the depots that have a token or a manifest id.
DepotEntries(text) ==
  DOMAIN parse_all_from_content(text).tokens
    \cup DOMAIN parse_all_from_content(text).manifests

\* The multi flag `multi` is that of a descriptor with the text `text`.
MultiOf(multi, text) == (multi = 1) <=> (Cardinality(DepotEntries(text)) > 1)

\* C24: the rows an injection records and the candidates a check run emits
\* carry multi = 1 exactly when the descriptor has more than one depot entry.
C24_MultiIffSeveralDepotEntries ==
  [][/\ ctl = "inject" =>
          \A i \in (Len(db) + 1)..Len(db') :
             MultiOf(db'[i].multi, dest'[db'[i].filename].text)
     /\ \A i \in (Len(to_update) + 1)..Len(to_update') :
          MultiOf(to_update'[i].multi, dest[to_update'[i].filename].text)]_vars

\* ------------------------------------------------ claims: candidate order
\* The place of `filename` in the list load_known_files returns.
FilePlace(conn, filename) ==
  LET files == CHOOSE seq \in load_known_files(conn) : TRUE
  IN  CHOOSE i \in 1..Len(files) : files[i] = filename

\* C25: the candidates of a check run are in the order of the known files,
\* and those of one file in strictly ascending order of their depots.
C25_CandidatesFileThenDepot ==
  ctl \in {"check", "exited"} =>
    \A i, j \in 1..Len(to_update) :
       i < j =>
         \/ FilePlace(db, to_update[i].filename) < FilePlace(db, to_update[j].filename)
         \/ /\ to_update[i].filename = to_update[j].filename
            /\ to_update[i].depot < to_update[j].depot

\* C25 witness: a run has printed two candidates of one file and, after or
\* before them, one of the other file.
C25_Witness ==
  /\ ctl = "exited"
  /\ stdout = <<to_update>>
  /\ Len(to_update) = 3
  /\ \E i, j \in 1..3 : to_update[i].filename # to_update[j].filename

\* The worker processes whose position is `pc`.
ChildrenAt(pc) == {i \in 1..Len(children) : children[i].pc = pc}

\* C26: at most one worker process runs, and at most one call of the
\* resolver is under way, at any time.
C26_OneQueryInFlight ==
  /\ Cardinality(ChildrenAt("query")) <= 1
  /\ Cardinality(ChildrenAt("query") \cup ChildrenAt("loop")) <= 1

\* C26 witness: the second worker process started in a behaviour is at a
\* query, with one more depot to query after it, while an InjectWorker runs.
C26_Witness ==
  /\ starts = 3
  /\ pool["inject"] = 1
  /\ \E i \in 1..Len(children) : children[i].pc = "query" /\ children[i].left = 2

\* ------------------------------------------------ claims: batch counters
\* The items an InjectWorker and an UpdateApplyWorker have counted.
InjectCounted == copied + skipped + iErrors
ApplyCounted == succeeded + failed

C28_CheckRunChangesNothing ==
  [][(ctl \in {"idle", "check"} /\ ctl' \in {"check", "exited"})
       => UNCHANGED <<dest, backups, archive, db>>]_vars

\* C28 witness: the second run of a behaviour was killed after it had found
\* a candidate; the files, the archive and the registry are present.
C28_Witness ==
  /\ ctl = "exited"
  /\ runs = 2
  /\ stdout = <<>>
  /\ to_update # <<>>
  /\ db # <<>> /\ archive # {}
  /\ \A n \in Filenames : dest[n].exists

\* ------------------------------------------------ claims: fixpoint
\* A check run on the files as they are emits a candidate for the depot of
\* the applied item `e` when the resolver answers as it did for that item.
EmitsAgain(e) ==
  /\ dest[e.filename].exists
  /\ e.depot \in DOMAIN FileManifests(e.filename)
  /\ Differs(e.latest_manifest, FileManifests(e.filename)[e.depot])

\* C29: when every item of an Apply batch was counted as succeeded, a check
\* run that gets the same answers from the resolver emits no candidate for
\* the depots of the batch.
C29_AppliedBatchIsFixpoint ==
  (ctl = "apply" /\ aItems = <<>> /\ aLog # <<>>
     /\ \A i \in 1..Len(aLog) : Applied(aLog[i]))
    => \A i \in 1..Len(aLog) : ~EmitsAgain(aLog[i])

\* ------------------------------------------------ claims: concurrency
\* Two texts are the same up to the manifest id of a depot's markers.
SameUpToManifest(a, b, depot) ==
  /\ Len(a) = Len(b)
  /\ \A i \in 1..Len(a) :
       \/ a[i] = b[i]
       \/ /\ a[i].k = "manifest" /\ a[i].d = depot
          /\ b[i] = [a[i] EXCEPT !.m = b[i].m, !.f = b[i].f]

\* C30: when a Placement and an Apply on the same destination file have both
\* finished, the text Placement wrote is the file under the name, up to the
\* manifest id Apply rewrote, or the text of a backup file.
C30_PlacedTextNotLost ==
  (pPc = "done" /\ uPc = "done")
    => \/ /\ dest[RaceFile].exists
          /\ SameUpToManifest(pText, dest[RaceFile].text, uDepot)
       \/ \E i \in 1..Len(backups[RaceFile]) : backups[RaceFile][i] = pText

====
